---- MODULE Spec2Model ----
(***************************************************************************)
(* A model of rusty-ts: the Option and Result wrappers of                  *)
(* src/private/OptionImpl.ts and src/private/ResultImpl.ts.                *)
(*                                                                         *)
(* The wrappers are JavaScript objects, so the model keeps a heap: a       *)
(* sequence of objects, an object's address being its index.  A call of a  *)
(* method is one action: it runs the method on the heap (allocating the    *)
(* objects the method allocates), and records in `last` the receiver, the  *)
(* arguments, every invocation of a callback the caller passed, and the    *)
(* outcome (a returned value or a thrown one).                             *)
(***************************************************************************)
EXTENDS Integers, Sequences, FiniteSets, TLC

VARIABLES heap, last

vars == <<heap, last>>

(* Bounds of the exploration. *)
MaxHeap == 3
MaxPair == 2

(* The longest array handed to option.all and result.all. *)
MaxArr == 2

-----------------------------------------------------------------------------
(* JavaScript values.  An object is denoted by its address in the heap. *)

Undefined == [k |-> "undefined", n |-> 0, s |-> ""]

Null == [k |-> "null", n |-> 0, s |-> ""]

Num(i) == [k |-> "number", n |-> i, s |-> ""]

Bool(b) == [k |-> "boolean", n |-> IF b THEN 1 ELSE 0, s |-> ""]

Str(str) == [k |-> "string", n |-> 0, s |-> str]

Ref(a) == [k |-> "object", n |-> a, s |-> ""]

(* The payloads the caller hands to the factories. *)
Prims == {Undefined, Null, Num(0), Num(1)}

(* What a callback of the caller throws. *)
Boom == Str("boom")

IsRef(v) == v.k = "object"

(* JavaScript's truthiness, as the conditional operator and ! read it. *)
Truthy(v) ==
  CASE v.k = "undefined" -> FALSE
    [] v.k = "null" -> FALSE
    [] v.k = "number" -> v.n # 0
    [] v.k = "boolean" -> v.n = 1
    [] v.k = "string" -> v.s # ""
    [] OTHER -> TRUE

-----------------------------------------------------------------------------
(* Objects: `flag` is the private discriminant (isNone_ of OptionImpl,     *)
(* isErr_ of ResultImpl), `value` the private payload slot (the message of *)
(* an error object), `elems` the elements of an array.                     *)

OptionObj(isNone_, value) ==
  [cls |-> "OptionImpl", flag |-> isNone_, value |-> value, elems |-> <<>>]

ResultObj(isErr_, value) ==
  [cls |-> "ResultImpl", flag |-> isErr_, value |-> value, elems |-> <<>>]

UnwrapError(message) ==
  [cls |-> "UnwrapError", flag |-> FALSE, value |-> message, elems |-> <<>>]

ArrayObj(elems) ==
  [cls |-> "Array", flag |-> FALSE, value |-> Undefined, elems |-> elems]

(* The state of an evaluation: the heap and the log of the calls of the    *)
(* caller's callbacks; an evaluation ends with an outcome `out`.           *)
Ret(st, v) == [heap |-> st.heap, calls |-> st.calls, out |-> [t |-> "return", v |-> v]]

Throw(st, v) == [heap |-> st.heap, calls |-> st.calls, out |-> [t |-> "throw", v |-> v]]

New(st, obj) ==
  [heap |-> Append(st.heap, obj), calls |-> st.calls,
   out |-> [t |-> "return", v |-> Ref(Len(st.heap) + 1)]]

Threw(r) == r.out.t = "throw"

-----------------------------------------------------------------------------
(* The callbacks of the caller: a callback is a named function with a      *)
(* captured value c.                                                       *)
(*   const    (..) => c                                                    *)
(*   not      x => !x                                                      *)
(*   identity x => x                                                       *)
(*   some     x => option.some(x)                                          *)
(*   none     () => option.none()                                          *)
(*   ok       x => result.ok(x)                                            *)
(*   throw    (..) => { throw c }                                          *)

Fn(f, c) == [f |-> f, c |-> c]

Arg1(args) == IF Len(args) >= 1 THEN args[1] ELSE Undefined

(* A call of a callback appends to the log, then runs the callback. *)
Invoke(st, role, fn, args) ==
  LET s == [heap |-> st.heap,
            calls |-> Append(st.calls, [role |-> role, fn |-> fn, args |-> args])]
  IN CASE fn.f = "const" -> Ret(s, fn.c)
       [] fn.f = "not" -> Ret(s, Bool(~Truthy(Arg1(args))))
       [] fn.f = "identity" -> Ret(s, Arg1(args))
       [] fn.f = "some" -> New(s, OptionObj(FALSE, Arg1(args)))
       [] fn.f = "none" -> New(s, OptionObj(TRUE, Undefined))
       [] fn.f = "ok" -> New(s, ResultObj(FALSE, Arg1(args)))
       [] fn.f = "throw" -> Throw(s, fn.c)

(* The value a callback returns, for the callbacks that allocate nothing. *)
FnValue(fn, args) ==
  CASE fn.f = "const" -> fn.c
    [] fn.f = "not" -> Bool(~Truthy(Arg1(args)))
    [] fn.f = "identity" -> Arg1(args)

-----------------------------------------------------------------------------
(* OptionImpl.  A method takes the evaluation state and the address of     *)
(* `this`.  match is the dispatch: it selects the callback of the matcher  *)
(* and the arguments it is called with; a method built on match continues  *)
(* with the body of the closure it passed for that callback.               *)

OptionImpl_some(st, value) == New(st, OptionObj(FALSE, value))

OptionImpl_none(st) == New(st, OptionObj(TRUE, Undefined))

ResultImpl_ok(st, value) == New(st, ResultObj(FALSE, value))

ResultImpl_err(st, error) == New(st, ResultObj(TRUE, error))

Option_isNone(st, this) == st.heap[this].flag

(* A bug: absence read off the payload slot instead of the discriminant. *)
Option_isSome_byPayload(st, this) == st.heap[this].value # Undefined

Option_isSome(st, this) == ~Option_isNone(st, this)

(* A bug: the test of the discriminant inverted. *)
Option_match_inverted(st, this) ==
  IF ~Option_isNone(st, this)
  THEN [cb |-> "none", args |-> <<>>]
  ELSE [cb |-> "some", args |-> <<st.heap[this].value>>]

Option_match(st, this) ==
  IF Option_isNone(st, this)
  THEN [cb |-> "none", args |-> <<>>]
  ELSE [cb |-> "some", args |-> <<st.heap[this].value>>]

Result_match(st, this) ==
  IF st.heap[this].flag
  THEN [cb |-> "err", args |-> <<st.heap[this].value>>]
  ELSE [cb |-> "ok", args |-> <<st.heap[this].value>>]

(* match called by the caller, with its own matcher {none: fns[1], some: fns[2]}. *)
Option_matchWith(st, this, matcher) ==
  LET m == Option_match(st, this)
  IN Invoke(st, m.cb, IF m.cb = "none" THEN matcher[1] ELSE matcher[2], m.args)

(* A bug: map in place, the receiver's payload overwritten. *)
Option_map_inPlace(st, this, mapper) ==
  LET m == Option_match(st, this)
  IN IF m.cb = "none"
     THEN Ret(st, Ref(this))
     ELSE LET r == Invoke(st, "mapper", mapper, m.args)
          IN IF Threw(r) THEN r
             ELSE Ret([r EXCEPT !.heap[this].value = r.out.v], Ref(this))

(* A bug: the mapper's result dropped, the old payload wrapped again. *)
Option_map_keepsValue(st, this, mapper) ==
  LET m == Option_match(st, this)
  IN IF m.cb = "none"
     THEN Ret(st, Ref(this))
     ELSE LET r == Invoke(st, "mapper", mapper, m.args)
          IN IF Threw(r) THEN r ELSE OptionImpl_some(r, m.args[1])

(* A bug: a throw of the mapper caught, the receiver returned instead. *)
Option_map_swallows(st, this, mapper) ==
  LET m == Option_match(st, this)
  IN IF m.cb = "none"
     THEN Ret(st, Ref(this))
     ELSE LET r == Invoke(st, "mapper", mapper, m.args)
          IN IF Threw(r) THEN Ret(r, Ref(this)) ELSE OptionImpl_some(r, r.out.v)

Option_map(st, this, mapper) ==
  LET m == Option_match(st, this)
  IN IF m.cb = "none"
     THEN Ret(st, Ref(this))
     ELSE LET r == Invoke(st, "mapper", mapper, m.args)
          IN IF Threw(r) THEN r ELSE OptionImpl_some(r, r.out.v)

Option_ifSome(st, this, executor) ==
  LET r == Option_map(st, this, executor)
  IN IF Threw(r) THEN r ELSE Ret(r, Undefined)

(* A bug: the discriminant read the wrong way round, the executor run on a some. *)
Option_ifNone_onSome(st, this, executor) ==
  IF Option_isSome(st, this)
  THEN LET r == Invoke(st, "executor", executor, <<>>)
       IN IF Threw(r) THEN r ELSE Ret(r, Undefined)
  ELSE Ret(st, Undefined)

Option_ifNone(st, this, executor) ==
  IF Option_isNone(st, this)
  THEN LET r == Invoke(st, "executor", executor, <<>>)
       IN IF Threw(r) THEN r ELSE Ret(r, Undefined)
  ELSE Ret(st, Undefined)

Option_expect(st, this, message) ==
  LET m == Option_match(st, this)
  IN IF m.cb = "none"
     THEN IF message.k = "string"
          THEN LET e == New(st, UnwrapError(message)) IN Throw(e, e.out.v)
          ELSE Throw(st, message)
     ELSE Ret(st, m.args[1])

(* A bug: the message of Result.unwrap pasted into Option.unwrap. *)
Option_unwrap_resultMessage(st, this) ==
  Option_expect(st, this, Str("Tried to call unwrap() on result.err()"))

Option_unwrap(st, this) ==
  Option_expect(st, this, Str("Tried to call unwrap() on option.none()"))

Option_unwrapOr(st, this, defaultValue) ==
  LET m == Option_match(st, this)
  IN IF m.cb = "none" THEN Ret(st, defaultValue) ELSE Ret(st, m.args[1])

(* A bug: the thunk evaluated before the match, as unwrapOr(thunk()) would. *)
Option_unwrapOrElse_eager(st, this, defaultValueThunk) ==
  LET d == Invoke(st, "defaultValueThunk", defaultValueThunk, <<>>)
      m == Option_match(st, this)
  IN IF Threw(d) THEN d
     ELSE IF m.cb = "none" THEN d ELSE Ret(d, m.args[1])

Option_unwrapOrElse(st, this, defaultValueThunk) ==
  LET m == Option_match(st, this)
  IN IF m.cb = "none"
     THEN Invoke(st, "defaultValueThunk", defaultValueThunk, <<>>)
     ELSE Ret(st, m.args[1])

Option_and(st, this, other) ==
  LET m == Option_match(st, this)
  IN IF m.cb = "none" THEN OptionImpl_none(st) ELSE Ret(st, other)

(* A bug: andThen as map, the flat mapper's Option wrapped in a some. *)
Option_andThen_wraps(st, this, flatMapper) ==
  LET m == Option_match(st, this)
  IN IF m.cb = "none"
     THEN OptionImpl_none(st)
     ELSE LET r == Invoke(st, "flatMapper", flatMapper, m.args)
          IN IF Threw(r) THEN r ELSE OptionImpl_some(r, r.out.v)

Option_andThen(st, this, flatMapper) ==
  LET m == Option_match(st, this)
  IN IF m.cb = "none"
     THEN OptionImpl_none(st)
     ELSE Invoke(st, "flatMapper", flatMapper, m.args)

(* A bug: a copy of the receiver returned in place of the receiver. *)
Option_or_copies(st, this, other) ==
  LET m == Option_match(st, this)
  IN IF m.cb = "none" THEN Ret(st, other) ELSE OptionImpl_some(st, m.args[1])

Option_or(st, this, other) ==
  LET m == Option_match(st, this)
  IN IF m.cb = "none" THEN Ret(st, other) ELSE Ret(st, Ref(this))

Option_orElse(st, this, otherThunk) ==
  LET m == Option_match(st, this)
  IN IF m.cb = "none"
     THEN Invoke(st, "otherThunk", otherThunk, m.args)
     ELSE Ret(st, Ref(this))

(* andThen(value => (predicate(value) ? this : OptionImpl.none())) *)
(* A bug: the test inverted, the receiver kept when the predicate fails. *)
Option_filter_inverted(st, this, predicate) ==
  LET m == Option_match(st, this)
  IN IF m.cb = "none"
     THEN OptionImpl_none(st)
     ELSE LET r == Invoke(st, "predicate", predicate, m.args)
          IN IF Threw(r) THEN r
             ELSE IF Truthy(r.out.v) THEN OptionImpl_none(r) ELSE Ret(r, Ref(this))

Option_filter(st, this, predicate) ==
  LET m == Option_match(st, this)
  IN IF m.cb = "none"
     THEN OptionImpl_none(st)
     ELSE LET r == Invoke(st, "predicate", predicate, m.args)
          IN IF Threw(r) THEN r
             ELSE IF Truthy(r.out.v) THEN Ret(r, Ref(this)) ELSE OptionImpl_none(r)

(* A bug: every level of nesting removed. *)
RECURSIVE Option_flatten_deep(_, _)
Option_flatten_deep(st, this) ==
  LET m == Option_match(st, this)
  IN IF m.cb = "none"
     THEN OptionImpl_none(st)
     ELSE IF IsRef(m.args[1]) /\ st.heap[m.args[1].n].cls = "OptionImpl"
               /\ ~st.heap[m.args[1].n].flag
               /\ IsRef(st.heap[m.args[1].n].value)
               /\ st.heap[st.heap[m.args[1].n].value.n].cls = "OptionImpl"
          THEN Option_flatten_deep(st, m.args[1].n)
          ELSE Ret(st, m.args[1])

(* andThen(innerOption => innerOption) *)
Option_flatten(st, this) ==
  LET m == Option_match(st, this)
  IN IF m.cb = "none" THEN OptionImpl_none(st) ELSE Ret(st, m.args[1])

Option_array(st, this) ==
  LET m == Option_match(st, this)
  IN IF m.cb = "none" THEN New(st, ArrayObj(<<>>)) ELSE New(st, ArrayObj(m.args))

(* A bug: xor written as or, so two somes give the receiver. *)
Option_xor_asOr(st, this, other) ==
  LET m == Option_match(st, this)
  IN IF m.cb = "none" THEN Ret(st, other) ELSE Ret(st, Ref(this))

Option_xor(st, this, other) ==
  LET m == Option_match(st, this)
  IN IF m.cb = "none"
     THEN Ret(st, other)
     ELSE IF Option_match(st, other.n).cb = "none"
          THEN Ret(st, Ref(this))
          ELSE OptionImpl_none(st)

(* A bug: the err of the payload turned into an ok of a some. *)
Option_transpose_errAsOk(st, this) ==
  LET m == Option_match(st, this)
  IN IF m.cb = "none"
     THEN ResultImpl_ok(OptionImpl_none(st), Ref(Len(st.heap) + 1))
     ELSE ResultImpl_ok(OptionImpl_some(st, Result_match(st, m.args[1].n).args[1]),
                        Ref(Len(st.heap) + 1))

Option_transpose(st, this) ==
  LET m == Option_match(st, this)
  IN IF m.cb = "none"
     THEN ResultImpl_ok(OptionImpl_none(st), Ref(Len(st.heap) + 1))
     ELSE LET res == Result_match(st, m.args[1].n)
          IN IF res.cb = "ok"
             THEN ResultImpl_ok(OptionImpl_some(st, res.args[1]), Ref(Len(st.heap) + 1))
             ELSE ResultImpl_err(st, res.args[1])

Option_equalsSome(st, this, other) ==
  LET m == Option_match(st, this)
  IN IF m.cb = "none" THEN Ret(st, Bool(FALSE)) ELSE Ret(st, Bool(m.args[1] = other))

Option_someSatisfies(st, this, predicate) ==
  LET m == Option_match(st, this)
  IN IF m.cb = "none"
     THEN Ret(st, Bool(FALSE))
     ELSE Invoke(st, "predicate", predicate, m.args)

-----------------------------------------------------------------------------
(* ResultImpl *)

(* match called by the caller, with its own matcher {ok: fns[1], err: fns[2]}. *)
Result_matchWith(st, this, matcher) ==
  LET m == Result_match(st, this)
  IN Invoke(st, m.cb, IF m.cb = "ok" THEN matcher[1] ELSE matcher[2], m.args)

Result_ok(st, this) ==
  LET m == Result_match(st, this)
  IN IF m.cb = "ok" THEN OptionImpl_some(st, m.args[1]) ELSE OptionImpl_none(st)

(* A bug: err() projecting the ok side, the two callbacks swapped. *)
Result_err_asOk(st, this) ==
  LET m == Result_match(st, this)
  IN IF m.cb = "ok" THEN OptionImpl_some(st, m.args[1]) ELSE OptionImpl_none(st)

Result_err(st, this) ==
  LET m == Result_match(st, this)
  IN IF m.cb = "ok" THEN OptionImpl_none(st) ELSE OptionImpl_some(st, m.args[1])

Result_isOk(st, this) == ~st.heap[this].flag

Result_isErr(st, this) == st.heap[this].flag

Result_map(st, this, mapper) ==
  LET m == Result_match(st, this)
  IN IF m.cb = "ok"
     THEN LET r == Invoke(st, "mapper", mapper, m.args)
          IN IF Threw(r) THEN r ELSE ResultImpl_ok(r, r.out.v)
     ELSE Ret(st, Ref(this))

(* A bug: the mapped error wrapped in an ok, as map wraps its result. *)
Result_mapErr_buildsOk(st, this, mapper) ==
  LET m == Result_match(st, this)
  IN IF m.cb = "err"
     THEN LET r == Invoke(st, "mapper", mapper, m.args)
          IN IF Threw(r) THEN r ELSE ResultImpl_ok(r, r.out.v)
     ELSE Ret(st, Ref(this))

Result_mapErr(st, this, mapper) ==
  LET m == Result_match(st, this)
  IN IF m.cb = "err"
     THEN LET r == Invoke(st, "mapper", mapper, m.args)
          IN IF Threw(r) THEN r ELSE ResultImpl_err(r, r.out.v)
     ELSE Ret(st, Ref(this))

Result_ifOk(st, this, executor) ==
  LET r == Result_map(st, this, executor)
  IN IF Threw(r) THEN r ELSE Ret(r, Undefined)

Result_ifErr(st, this, executor) ==
  LET r == Result_mapErr(st, this, executor)
  IN IF Threw(r) THEN r ELSE Ret(r, Undefined)

Result_expect(st, this, message) ==
  LET m == Result_match(st, this)
  IN IF m.cb = "ok"
     THEN Ret(st, m.args[1])
     ELSE IF message.k = "string"
          THEN LET e == New(st, UnwrapError(message)) IN Throw(e, e.out.v)
          ELSE Throw(st, message)

(* A bug: the Error object is wrapped as a string is. *)
Result_expectErr_wraps(st, this, message) ==
  LET m == Result_match(st, this)
  IN IF m.cb = "ok"
     THEN LET e == New(st, UnwrapError(message)) IN Throw(e, e.out.v)
     ELSE Ret(st, m.args[1])

Result_expectErr(st, this, message) ==
  LET m == Result_match(st, this)
  IN IF m.cb = "ok"
     THEN IF message.k = "string"
          THEN LET e == New(st, UnwrapError(message)) IN Throw(e, e.out.v)
          ELSE Throw(st, message)
     ELSE Ret(st, m.args[1])

Result_unwrap(st, this) ==
  Result_expect(st, this, Str("Tried to call unwrap() on result.err()"))

(* A bug: safeUnwrap written on top of expectErr, which throws on an ok. *)
Result_safeUnwrap_viaExpectErr(st, this) ==
  Result_expectErr(st, this, Str("Tried to call unwrapErr() on result.ok()"))

Result_safeUnwrap(st, this) == Ret(st, st.heap[this].value)

(* A bug: the message of unwrap pasted into unwrapErr. *)
Result_unwrapErr_unwrapMessage(st, this) ==
  Result_expectErr(st, this, Str("Tried to call unwrap() on result.err()"))

Result_unwrapErr(st, this) ==
  Result_expectErr(st, this, Str("Tried to call unwrapErr() on result.ok()"))

(* The Result interface declares safeUnwrapErr, and ResultImpl has no      *)
(* member of that name: the lookup on the instance gives undefined, and    *)
(* the call of undefined throws a TypeError, whatever the variant.         *)
Result_safeUnwrapErr(st, this) ==
  LET e == New(st, [cls |-> "TypeError", flag |-> FALSE,
                    value |-> Str("safeUnwrapErr is not a function"), elems |-> <<>>])
  IN Throw(e, e.out.v)

(* A bug: the error payload thrown inside an UnwrapError, as unwrap would. *)
Result_unwrapOrThrowErr_wraps(st, this) ==
  LET m == Result_match(st, this)
  IN IF m.cb = "ok"
     THEN Ret(st, m.args[1])
     ELSE LET e == New(st, UnwrapError(m.args[1])) IN Throw(e, e.out.v)

Result_unwrapOrThrowErr(st, this) ==
  LET m == Result_match(st, this)
  IN IF m.cb = "ok" THEN Ret(st, m.args[1]) ELSE Throw(st, m.args[1])

Result_unwrapErrOrThrowOk(st, this) ==
  LET m == Result_match(st, this)
  IN IF m.cb = "ok" THEN Throw(st, m.args[1]) ELSE Ret(st, m.args[1])

(* A bug: unwrapOr written as unwrap, the default dropped. *)
Result_unwrapOr_viaUnwrap(st, this, defaultValue) ==
  Result_unwrap(st, this)

Result_unwrapOr(st, this, defaultValue) ==
  LET m == Result_match(st, this)
  IN IF m.cb = "ok" THEN Ret(st, m.args[1]) ELSE Ret(st, defaultValue)

Result_unwrapOrElse(st, this, defaultValueThunk) ==
  LET m == Result_match(st, this)
  IN IF m.cb = "ok"
     THEN Ret(st, m.args[1])
     ELSE Invoke(st, "defaultValueThunk", defaultValueThunk, <<st.heap[this].value>>)

(* A bug: an err receiver is rebuilt instead of returned. *)
Result_and_copies(st, this, other) ==
  LET m == Result_match(st, this)
  IN IF m.cb = "ok" THEN Ret(st, other) ELSE ResultImpl_err(st, m.args[1])

Result_and(st, this, other) ==
  LET m == Result_match(st, this)
  IN IF m.cb = "ok" THEN Ret(st, other) ELSE Ret(st, Ref(this))

Result_andThen(st, this, flatMapper) ==
  LET m == Result_match(st, this)
  IN IF m.cb = "ok"
     THEN Invoke(st, "flatMapper", flatMapper, m.args)
     ELSE Ret(st, Ref(this))

Result_or(st, this, other) ==
  LET m == Result_match(st, this)
  IN IF m.cb = "ok" THEN Ret(st, Ref(this)) ELSE Ret(st, other)

(* A bug: the thunk called without the error, as Option.orElse calls its thunk. *)
Result_orElse_noArg(st, this, otherThunk) ==
  LET m == Result_match(st, this)
  IN IF m.cb = "ok"
     THEN Ret(st, Ref(this))
     ELSE Invoke(st, "otherThunk", otherThunk, <<>>)

Result_orElse(st, this, otherThunk) ==
  LET m == Result_match(st, this)
  IN IF m.cb = "ok"
     THEN Ret(st, Ref(this))
     ELSE Invoke(st, "otherThunk", otherThunk, m.args)

Result_array(st, this) ==
  LET m == Result_match(st, this)
  IN IF m.cb = "ok" THEN New(st, ArrayObj(m.args)) ELSE New(st, ArrayObj(<<>>))

(* A bug: an err transposed to none, the error dropped. *)
Result_transpose_errToNone(st, this) ==
  LET m == Result_match(st, this)
  IN IF m.cb = "ok"
     THEN LET opt == Option_match(st, m.args[1].n)
          IN IF opt.cb = "some"
             THEN OptionImpl_some(ResultImpl_ok(st, opt.args[1]), Ref(Len(st.heap) + 1))
             ELSE OptionImpl_none(st)
     ELSE OptionImpl_none(st)

Result_transpose(st, this) ==
  LET m == Result_match(st, this)
  IN IF m.cb = "ok"
     THEN LET opt == Option_match(st, m.args[1].n)
          IN IF opt.cb = "some"
             THEN OptionImpl_some(ResultImpl_ok(st, opt.args[1]), Ref(Len(st.heap) + 1))
             ELSE OptionImpl_none(st)
     ELSE OptionImpl_some(ResultImpl_err(st, m.args[1]), Ref(Len(st.heap) + 1))

(* this.ok().match({some: predicate, none: () => false}) *)
Result_okSatisfies(st, this, predicate) ==
  LET o == Result_ok(st, this)
      m == Option_match(o, o.out.v.n)
  IN IF m.cb = "none" THEN Ret(o, Bool(FALSE)) ELSE Invoke(o, "predicate", predicate, m.args)

Result_errSatisfies(st, this, predicate) ==
  LET o == Result_err(st, this)
      m == Option_match(o, o.out.v.n)
  IN IF m.cb = "none" THEN Ret(o, Bool(FALSE)) ELSE Invoke(o, "predicate", predicate, m.args)

(* A bug: the err branch rebuilds an err instead of an ok. *)
Result_reverse_errStays(st, this) ==
  LET m == Result_match(st, this)
  IN ResultImpl_err(st, m.args[1])

Result_reverse(st, this) ==
  LET m == Result_match(st, this)
  IN IF m.cb = "ok" THEN ResultImpl_err(st, m.args[1]) ELSE ResultImpl_ok(st, m.args[1])

-----------------------------------------------------------------------------
(* The factory functions of index.ts that take arrays.  An array argument  *)
(* is the sequence of its elements; the array `values` is allocated when   *)
(* the function starts and grows by push.                                  *)

RECURSIVE optionDotAllLoop(_, _, _, _)
optionDotAllLoop(st, options, i, values) ==
  IF i > Len(options)
  THEN OptionImpl_some(st, Ref(values))
  ELSE IF Option_isSome(st, options[i].n)
       THEN optionDotAllLoop(
              [st EXCEPT !.heap[values].elems = Append(@, st.heap[options[i].n].value)],
              options, i + 1, values)
       ELSE OptionImpl_none(st)

(* A bug: the loop stops one element early. *)
optionDotAll_offByOne(st, options) ==
  LET a == New(st, ArrayObj(<<>>))
  IN optionDotAllLoop(a, SubSeq(options, 1, Len(options) - 1), 1, a.out.v.n)

optionDotAll(st, options) ==
  LET a == New(st, ArrayObj(<<>>))
  IN optionDotAllLoop(a, options, 1, a.out.v.n)

RECURSIVE resultDotAllLoop(_, _, _, _)
resultDotAllLoop(st, results, i, values) ==
  IF i > Len(results)
  THEN ResultImpl_ok(st, Ref(values))
  ELSE IF Result_isOk(st, results[i].n)
       THEN resultDotAllLoop(
              [st EXCEPT !.heap[values].elems =
                           Append(@, Result_safeUnwrap(st, results[i].n).out.v)],
              results, i + 1, values)
       ELSE Ret(st, results[i])

(* A bug: the scan keeps going after an err, so the last err is returned. *)
resultDotAll_lastErr(st, results) ==
  LET a == New(st, ArrayObj(<<>>))
      errs == {i \in 1..Len(results) : ~Result_isOk(st, results[i].n)}
  IN IF errs = {}
     THEN resultDotAllLoop(a, results, 1, a.out.v.n)
     ELSE Ret(a, results[CHOOSE i \in errs : \A j \in errs : j <= i])

resultDotAll(st, results) ==
  LET a == New(st, ArrayObj(<<>>))
  IN resultDotAllLoop(a, results, 1, a.out.v.n)

(* A bug: a truthiness test in place of the comparison with undefined and null. *)
option_fromVoidable_falsy(st, voidable) ==
  IF ~Truthy(voidable)
  THEN OptionImpl_none(st)
  ELSE OptionImpl_some(st, voidable)

option_fromVoidable(st, voidable) ==
  IF voidable = Undefined \/ voidable = Null
  THEN OptionImpl_none(st)
  ELSE OptionImpl_some(st, voidable)

-----------------------------------------------------------------------------
(* The caller.  `last` is the record of the call in progress: the          *)
(* operation, the receiver, the argument, the callbacks passed, the calls  *)
(* of these callbacks in order, the outcome, and `base`, the size of the   *)
(* heap when the call started (an object above base was allocated by the   *)
(* call).                                                                  *)

NoOut == [t |-> "return", v |-> Undefined]

Idle ==
  [op |-> "idle", recv |-> Undefined, arg |-> Undefined, arr |-> <<>>, fns |-> <<>>,
   calls |-> <<>>, out |-> NoOut, base |-> 0]

Start == [heap |-> heap, calls |-> <<>>]

Addrs(cls) == {a \in 1..Len(heap) : heap[a].cls = cls}

Options == Addrs("OptionImpl")

Results == Addrs("ResultImpl")

Values == Prims \cup {Ref(a) : a \in 1..Len(heap)}

(* Options whose payload, if any, is of class cls: Option<Option<U>>, Option<Result<U, E>>. *)
OptionsOf(cls) ==
  {a \in Options : heap[a].flag \/ (IsRef(heap[a].value) /\ heap[heap[a].value.n].cls = cls)}

(* Results whose ok payload is an Option: Result<Option<U>, E>. *)
ResultsOfOption ==
  {a \in Results :
     heap[a].flag \/ (IsRef(heap[a].value) /\ heap[heap[a].value.n].cls = "OptionImpl")}

(* (value: T) => R and () => D *)
Mappers == {Fn("const", Null), Fn("not", Undefined), Fn("throw", Boom)}

(* The matchers {none/ok: m[1], some/err: m[2]} of a call of match: the    *)
(* two callbacks differ, so that the log tells them apart.                 *)
Matchers ==
  {<<Fn("const", Null), Fn("not", Undefined)>>, <<Fn("not", Undefined), Fn("const", Null)>>,
   <<Fn("throw", Boom), Fn("not", Undefined)>>, <<Fn("not", Undefined), Fn("throw", Boom)>>}

(* (value: T) => boolean *)
Predicates == {Fn("const", Bool(TRUE)), Fn("not", Undefined), Fn("throw", Boom)}

(* (value: T) => Option<U> and () => Option<U> *)
OptionFns ==
  {Fn("const", Ref(a)) : a \in Options}
    \cup {Fn("some", Undefined), Fn("none", Undefined), Fn("throw", Boom)}

(* (value: T) => Result<T2, E2> *)
ResultFns ==
  {Fn("const", Ref(a)) : a \in Results} \cup {Fn("ok", Undefined), Fn("throw", Boom)}

(* An Error object the caller built. *)
CustomError == [k |-> "error", n |-> 0, s |-> "custom"]

Messages == {Str("custom message"), CustomError}

(* What the caller hands to option.fromVoidable: the falsy values among them. *)
Voidables == Values \cup {Str(""), Str("foo"), Bool(FALSE), Bool(TRUE)}

(* Arrays of at most MaxArr elements of a set. *)
ArraysOf(S) == UNION {[1..n -> S] : n \in 0..MaxArr}

CallArr(op, recv, arg, arr, fns, r) ==
  /\ last.op = "idle"
  /\ heap' = r.heap
  /\ last' = [op |-> op, recv |-> recv, arg |-> arg, arr |-> arr, fns |-> fns,
              calls |-> r.calls, out |-> r.out, base |-> Len(heap)]

Call(op, recv, arg, fns, r) == CallArr(op, recv, arg, <<>>, fns, r)

Factories == {"option.some", "option.none", "result.ok", "result.err"}

(* The caller takes the outcome.  It keeps the wrapper a factory built;    *)
(* what a method allocated is garbage from here on and is dropped (no      *)
(* older object refers to it, a payload being older than its wrapper).     *)
Return ==
  /\ last.op # "idle"
  /\ last' = Idle
  /\ heap' = IF last.op \in Factories THEN heap ELSE SubSeq(heap, 1, last.base)

Init == heap = <<>> /\ last = Idle

(* option.some, option.none, result.ok, result.err *)
Some(v) == Call("option.some", Undefined, v, <<>>, OptionImpl_some(Start, v))

None == Call("option.none", Undefined, Undefined, <<>>, OptionImpl_none(Start))

Ok(v) == Call("result.ok", Undefined, v, <<>>, ResultImpl_ok(Start, v))

Err(v) == Call("result.err", Undefined, v, <<>>, ResultImpl_err(Start, v))

FromVoidable(voidable) ==
  Call("option.fromVoidable", Undefined, voidable, <<>>, option_fromVoidable(Start, voidable))

OptionAll(options) ==
  CallArr("option.all", Undefined, Undefined, options, <<>>, optionDotAll(Start, options))

ResultAll(results) ==
  CallArr("result.all", Undefined, Undefined, results, <<>>, resultDotAll(Start, results))

(* The methods of Option, called on the Option at address `this`. *)
OptionIsNone(this) ==
  Call("Option.isNone", Ref(this), Undefined, <<>>, Ret(Start, Bool(Option_isNone(Start, this))))

OptionIsSome(this) ==
  Call("Option.isSome", Ref(this), Undefined, <<>>, Ret(Start, Bool(Option_isSome(Start, this))))

OptionMatch(this, none, some) ==
  Call("Option.match", Ref(this), Undefined, <<none, some>>, Option_matchWith(Start, this, <<none, some>>))

OptionMap(this, mapper) ==
  Call("Option.map", Ref(this), Undefined, <<mapper>>, Option_map(Start, this, mapper))

OptionIfSome(this, executor) ==
  Call("Option.ifSome", Ref(this), Undefined, <<executor>>, Option_ifSome(Start, this, executor))

OptionIfNone(this, executor) ==
  Call("Option.ifNone", Ref(this), Undefined, <<executor>>, Option_ifNone(Start, this, executor))

OptionUnwrap(this) ==
  Call("Option.unwrap", Ref(this), Undefined, <<>>, Option_unwrap(Start, this))

OptionExpect(this, message) ==
  Call("Option.expect", Ref(this), message, <<>>, Option_expect(Start, this, message))

OptionUnwrapOr(this, defaultValue) ==
  Call("Option.unwrapOr", Ref(this), defaultValue, <<>>, Option_unwrapOr(Start, this, defaultValue))

OptionUnwrapOrElse(this, defaultValueThunk) ==
  Call("Option.unwrapOrElse", Ref(this), Undefined, <<defaultValueThunk>>, Option_unwrapOrElse(Start, this, defaultValueThunk))

OptionAnd(this, other) ==
  Call("Option.and", Ref(this), Ref(other), <<>>, Option_and(Start, this, Ref(other)))

OptionAndThen(this, flatMapper) ==
  Call("Option.andThen", Ref(this), Undefined, <<flatMapper>>, Option_andThen(Start, this, flatMapper))

OptionOr(this, other) ==
  Call("Option.or", Ref(this), Ref(other), <<>>, Option_or(Start, this, Ref(other)))

OptionOrElse(this, otherThunk) ==
  Call("Option.orElse", Ref(this), Undefined, <<otherThunk>>, Option_orElse(Start, this, otherThunk))

OptionFilter(this, predicate) ==
  Call("Option.filter", Ref(this), Undefined, <<predicate>>, Option_filter(Start, this, predicate))

OptionFlatten(this) ==
  Call("Option.flatten", Ref(this), Undefined, <<>>, Option_flatten(Start, this))

OptionArray(this) ==
  Call("Option.array", Ref(this), Undefined, <<>>, Option_array(Start, this))

OptionXor(this, other) ==
  Call("Option.xor", Ref(this), Ref(other), <<>>, Option_xor(Start, this, Ref(other)))

OptionTranspose(this) ==
  Call("Option.transpose", Ref(this), Undefined, <<>>, Option_transpose(Start, this))

OptionEqualsSome(this, other) ==
  Call("Option.equalsSome", Ref(this), other, <<>>, Option_equalsSome(Start, this, other))

OptionSomeSatisfies(this, predicate) ==
  Call("Option.someSatisfies", Ref(this), Undefined, <<predicate>>, Option_someSatisfies(Start, this, predicate))

(* The methods of Result, called on the Result at address `this`. *)
ResultMatch(this, ok, err) ==
  Call("Result.match", Ref(this), Undefined, <<ok, err>>, Result_matchWith(Start, this, <<ok, err>>))

ResultOk(this) ==
  Call("Result.ok", Ref(this), Undefined, <<>>, Result_ok(Start, this))

ResultErr(this) ==
  Call("Result.err", Ref(this), Undefined, <<>>, Result_err(Start, this))

ResultIsOk(this) ==
  Call("Result.isOk", Ref(this), Undefined, <<>>, Ret(Start, Bool(Result_isOk(Start, this))))

ResultIsErr(this) ==
  Call("Result.isErr", Ref(this), Undefined, <<>>, Ret(Start, Bool(Result_isErr(Start, this))))

ResultMap(this, mapper) ==
  Call("Result.map", Ref(this), Undefined, <<mapper>>, Result_map(Start, this, mapper))

ResultMapErr(this, mapper) ==
  Call("Result.mapErr", Ref(this), Undefined, <<mapper>>, Result_mapErr(Start, this, mapper))

ResultIfOk(this, executor) ==
  Call("Result.ifOk", Ref(this), Undefined, <<executor>>, Result_ifOk(Start, this, executor))

ResultIfErr(this, executor) ==
  Call("Result.ifErr", Ref(this), Undefined, <<executor>>, Result_ifErr(Start, this, executor))

ResultUnwrap(this) ==
  Call("Result.unwrap", Ref(this), Undefined, <<>>, Result_unwrap(Start, this))

ResultSafeUnwrap(this) ==
  Call("Result.safeUnwrap", Ref(this), Undefined, <<>>, Result_safeUnwrap(Start, this))

ResultUnwrapErr(this) ==
  Call("Result.unwrapErr", Ref(this), Undefined, <<>>, Result_unwrapErr(Start, this))

ResultSafeUnwrapErr(this) ==
  Call("Result.safeUnwrapErr", Ref(this), Undefined, <<>>, Result_safeUnwrapErr(Start, this))

ResultUnwrapOrThrowErr(this) ==
  Call("Result.unwrapOrThrowErr", Ref(this), Undefined, <<>>, Result_unwrapOrThrowErr(Start, this))

ResultUnwrapErrOrThrowOk(this) ==
  Call("Result.unwrapErrOrThrowOk", Ref(this), Undefined, <<>>, Result_unwrapErrOrThrowOk(Start, this))

ResultExpect(this, message) ==
  Call("Result.expect", Ref(this), message, <<>>, Result_expect(Start, this, message))

ResultExpectErr(this, message) ==
  Call("Result.expectErr", Ref(this), message, <<>>, Result_expectErr(Start, this, message))

ResultUnwrapOr(this, defaultValue) ==
  Call("Result.unwrapOr", Ref(this), defaultValue, <<>>, Result_unwrapOr(Start, this, defaultValue))

ResultUnwrapOrElse(this, defaultValueThunk) ==
  Call("Result.unwrapOrElse", Ref(this), Undefined, <<defaultValueThunk>>, Result_unwrapOrElse(Start, this, defaultValueThunk))

ResultAnd(this, other) ==
  Call("Result.and", Ref(this), Ref(other), <<>>, Result_and(Start, this, Ref(other)))

ResultAndThen(this, flatMapper) ==
  Call("Result.andThen", Ref(this), Undefined, <<flatMapper>>, Result_andThen(Start, this, flatMapper))

ResultOr(this, other) ==
  Call("Result.or", Ref(this), Ref(other), <<>>, Result_or(Start, this, Ref(other)))

ResultOrElse(this, otherThunk) ==
  Call("Result.orElse", Ref(this), Undefined, <<otherThunk>>, Result_orElse(Start, this, otherThunk))

ResultArray(this) ==
  Call("Result.array", Ref(this), Undefined, <<>>, Result_array(Start, this))

ResultTranspose(this) ==
  Call("Result.transpose", Ref(this), Undefined, <<>>, Result_transpose(Start, this))

ResultOkSatisfies(this, predicate) ==
  Call("Result.okSatisfies", Ref(this), Undefined, <<predicate>>, Result_okSatisfies(Start, this, predicate))

ResultErrSatisfies(this, predicate) ==
  Call("Result.errSatisfies", Ref(this), Undefined, <<predicate>>, Result_errSatisfies(Start, this, predicate))

ResultReverse(this) ==
  Call("Result.reverse", Ref(this), Undefined, <<>>, Result_reverse(Start, this))

-----------------------------------------------------------------------------
(* Spec: the caller builds up to MaxHeap Options, nested or not, and calls *)
(* the methods of Option and option.all on them.                           *)

OptionCalls ==
  \/ \E this \in Options : OptionIsNone(this)
  \/ \E this \in Options : OptionIsSome(this)
  \/ \E this \in Options : \E m \in Matchers : OptionMatch(this, m[1], m[2])
  \/ \E this \in Options : \E mapper \in Mappers : OptionMap(this, mapper)
  \/ \E this \in Options : \E executor \in Mappers : OptionIfSome(this, executor)
  \/ \E this \in Options : \E executor \in Mappers : OptionIfNone(this, executor)
  \/ \E this \in Options : OptionUnwrap(this)
  \/ \E this \in Options : \E message \in Messages : OptionExpect(this, message)
  \/ \E this \in Options : \E defaultValue \in Values : OptionUnwrapOr(this, defaultValue)
  \/ \E this \in Options : \E thunk \in Mappers : OptionUnwrapOrElse(this, thunk)
  \/ \E this \in Options : \E other \in Options : OptionAnd(this, other)
  \/ \E this \in Options : \E flatMapper \in OptionFns : OptionAndThen(this, flatMapper)
  \/ \E this \in Options : \E other \in Options : OptionOr(this, other)
  \/ \E this \in Options : \E otherThunk \in OptionFns : OptionOrElse(this, otherThunk)
  \/ \E this \in Options : \E predicate \in Predicates : OptionFilter(this, predicate)
  \/ \E this \in OptionsOf("OptionImpl") : OptionFlatten(this)
  \/ \E this \in Options : OptionArray(this)
  \/ \E this \in Options : \E other \in Options : OptionXor(this, other)
  \/ \E this \in Options : \E other \in Values : OptionEqualsSome(this, other)
  \/ \E this \in Options : \E predicate \in Predicates : OptionSomeSatisfies(this, predicate)
  \/ last.op = "idle" /\ \E options \in ArraysOf({Ref(a) : a \in Options}) : OptionAll(options)
  \/ \E voidable \in Voidables : FromVoidable(voidable)

Next ==
  \/ Len(heap) < MaxHeap /\ \E v \in Values : Some(v)
  \/ Len(heap) < MaxHeap /\ None
  \/ OptionCalls
  \/ Return

Spec == Init /\ [][Next]_vars

(* SpecB: the caller builds up to MaxPair Options and Results, and calls   *)
(* every operation of the two interfaces on them.                          *)

ResultCalls ==
  \/ \E this \in Results : \E m \in Matchers : ResultMatch(this, m[1], m[2])
  \/ \E this \in Results : ResultOk(this)
  \/ \E this \in Results : ResultErr(this)
  \/ \E this \in Results : ResultIsOk(this)
  \/ \E this \in Results : ResultIsErr(this)
  \/ \E this \in Results : \E mapper \in Mappers : ResultMap(this, mapper)
  \/ \E this \in Results : \E mapper \in Mappers : ResultMapErr(this, mapper)
  \/ \E this \in Results : \E executor \in Mappers : ResultIfOk(this, executor)
  \/ \E this \in Results : \E executor \in Mappers : ResultIfErr(this, executor)
  \/ \E this \in Results : ResultUnwrap(this)
  \/ \E this \in Results : ~heap[this].flag /\ ResultSafeUnwrap(this)
  \/ \E this \in Results : heap[this].flag /\ ResultSafeUnwrapErr(this)
  \/ \E this \in Results : ResultUnwrapErr(this)
  \/ \E this \in Results : ResultUnwrapOrThrowErr(this)
  \/ \E this \in Results : ResultUnwrapErrOrThrowOk(this)
  \/ \E this \in Results : \E message \in Messages : ResultExpect(this, message)
  \/ \E this \in Results : \E message \in Messages : ResultExpectErr(this, message)
  \/ \E this \in Results : \E defaultValue \in Values : ResultUnwrapOr(this, defaultValue)
  \/ \E this \in Results : \E thunk \in Mappers : ResultUnwrapOrElse(this, thunk)
  \/ \E this \in Results : \E other \in Results : ResultAnd(this, other)
  \/ \E this \in Results : \E flatMapper \in ResultFns : ResultAndThen(this, flatMapper)
  \/ \E this \in Results : \E other \in Results : ResultOr(this, other)
  \/ \E this \in Results : \E otherThunk \in ResultFns : ResultOrElse(this, otherThunk)
  \/ \E this \in Results : ResultArray(this)
  \/ \E this \in ResultsOfOption : ResultTranspose(this)
  \/ \E this \in Results : \E predicate \in Predicates : ResultOkSatisfies(this, predicate)
  \/ \E this \in Results : \E predicate \in Predicates : ResultErrSatisfies(this, predicate)
  \/ \E this \in Results : ResultReverse(this)
  \/ last.op = "idle" /\ \E results \in ArraysOf({Ref(a) : a \in Results}) : ResultAll(results)

NextB ==
  \/ Len(heap) < MaxPair /\ \E v \in Values : Some(v)
  \/ Len(heap) < MaxPair /\ None
  \/ Len(heap) < MaxPair /\ \E v \in Values : Ok(v)
  \/ Len(heap) < MaxPair /\ \E v \in Values : Err(v)
  \/ OptionCalls
  \/ \E this \in OptionsOf("ResultImpl") : OptionTranspose(this)
  \/ ResultCalls
  \/ Return

SpecB == Init /\ [][NextB]_vars

-----------------------------------------------------------------------------
(* What the properties read. *)

(* The heap when the call in progress started. *)
Pre == SubSeq(heap, 1, last.base)

PreState == [heap |-> Pre, calls |-> <<>>]

(* The receiver of the call in progress. *)
Recv == heap[last.recv.n]

(* A value unfolded: a wrapper as its class, its variant and its unfolded payload. *)
RECURSIVE Deep(_, _)
Deep(h, v) ==
  IF IsRef(v)
  THEN [cls |-> h[v.n].cls, flag |-> h[v.n].flag, value |-> Deep(h, h[v.n].value),
        elems |-> [i \in 1..Len(h[v.n].elems) |-> Deep(h, h[v.n].elems[i])]]
  ELSE v

IsA(h, v, cls) == IsRef(v) /\ h[v.n].cls = cls

IsNoneAt(h, v) == IsA(h, v, "OptionImpl") /\ h[v.n].flag

IsSomeOf(h, v, payload) == IsA(h, v, "OptionImpl") /\ ~h[v.n].flag /\ h[v.n].value = payload

IsOkOf(h, v, payload) == IsA(h, v, "ResultImpl") /\ ~h[v.n].flag /\ h[v.n].value = payload

IsErrOf(h, v, payload) == IsA(h, v, "ResultImpl") /\ h[v.n].flag /\ h[v.n].value = payload

(* The call in progress did what one call of callback fn with args does:   *)
(* that one entry of the log, the callback's outcome, the objects the      *)
(* callback allocated and no other.                                        *)
RanOnly(role, fn, args) ==
  LET r == Invoke(PreState, role, fn, args)
  IN last.calls = r.calls /\ last.out = r.out /\ heap = r.heap

-----------------------------------------------------------------------------
(* C1: every Option in the heap, built by a factory or by a combinator     *)
(* (map, and, andThen, or, orElse, filter, flatten, xor, Result.ok,        *)
(* Result.err, Result.transpose), answers true to exactly one of isSome    *)
(* and isNone; option.some(v) is some for every v, null and undefined      *)
(* included, and option.none() is none.                                    *)
C1_ExactlyOneVariant ==
  /\ \A a \in Options : Option_isSome(Start, a) # Option_isNone(Start, a)
  /\ last.op = "option.some" =>
       Option_isSome(Start, last.out.v.n) /\ ~Option_isNone(Start, last.out.v.n)
  /\ last.op = "option.none" =>
       Option_isNone(Start, last.out.v.n) /\ ~Option_isSome(Start, last.out.v.n)
  /\ last.op = "Option.isSome" => last.out.v = Bool(~Recv.flag)
  /\ last.op = "Option.isNone" => last.out.v = Bool(Recv.flag)

C1_Witness ==
  /\ last.op = "Option.isSome"
  /\ Recv = OptionObj(FALSE, Undefined)
  /\ last.out.v = Bool(TRUE)

(* C2: a call of an operation leaves every wrapper that existed when it    *)
(* started as it was: match on it selects the same callback with the same  *)
(* payload after the call as before, whether the call returns or throws.   *)
C2_NoMutation ==
  [][last.op = "idle" =>
       /\ Len(heap') >= Len(heap)
       /\ \A a \in Options :
            Option_match([heap |-> heap', calls |-> <<>>], a) = Option_match(Start, a)
       /\ \A a \in Results :
            Result_match([heap |-> heap', calls |-> <<>>], a) = Result_match(Start, a)]_vars

C2_Witness ==
  /\ last.op = "Option.map"
  /\ last.out.t = "throw"
  /\ ~Recv.flag
  /\ last.calls # <<>>

(* C3: match invokes the callback of the receiver's variant, once, with    *)
(* the payload as its only argument (with no argument on none), invokes    *)
(* the other callback zero times, and ends as that callback ends.          *)
C3_MatchDispatch ==
  /\ last.op = "Option.match" =>
       IF Recv.flag
       THEN RanOnly("none", last.fns[1], <<>>)
       ELSE RanOnly("some", last.fns[2], <<Recv.value>>)
  /\ last.op = "Result.match" =>
       IF Recv.flag
       THEN RanOnly("err", last.fns[2], <<Recv.value>>)
       ELSE RanOnly("ok", last.fns[1], <<Recv.value>>)
  /\ last.op \in {"Option.match", "Result.match"} => Len(last.calls) = 1

C3_Witness ==
  /\ last.op = "Option.match"
  /\ Recv.flag
  /\ last.calls = <<[role |-> "none", fn |-> Fn("not", Undefined), args |-> <<>>]>>
  /\ last.out = [t |-> "return", v |-> Bool(TRUE)]

(* C4: some(v).map(f) is a some wrapping f(v) and f is invoked once, with  *)
(* v; none.map(f) is none and f is not invoked.                            *)
C4_Map ==
  last.op = "Option.map" =>
    IF Recv.flag
    THEN last.calls = <<>> /\ last.out.t = "return" /\ IsNoneAt(heap, last.out.v)
    ELSE /\ last.calls = <<[role |-> "mapper", fn |-> last.fns[1], args |-> <<Recv.value>>]>>
         /\ last.fns[1].f # "throw" =>
              /\ last.out.t = "return"
              /\ IsSomeOf(heap, last.out.v, FnValue(last.fns[1], <<Recv.value>>))

C4_Witness ==
  /\ last.op = "Option.map"
  /\ Recv = OptionObj(FALSE, Num(0))
  /\ last.fns[1].f = "not"
  /\ IsSomeOf(heap, last.out.v, Bool(TRUE))

(* C5: unwrapOrElse(thunk) on none invokes thunk once, with no argument,   *)
(* and ends as the thunk ends; on some(v) it returns v and does not invoke *)
(* thunk.                                                                  *)
C5_UnwrapOrElseLazy ==
  last.op = "Option.unwrapOrElse" =>
    IF Recv.flag
    THEN RanOnly("defaultValueThunk", last.fns[1], <<>>)
    ELSE last.calls = <<>> /\ last.out = [t |-> "return", v |-> Recv.value]

C5_Witness ==
  /\ last.op = "Option.unwrapOrElse"
  /\ ~Recv.flag
  /\ last.fns[1].f = "throw"
  /\ last.out = [t |-> "return", v |-> Recv.value]

(* C6: andThen(f) on none is none and f is not invoked; on some(v) f is    *)
(* invoked once, with v, and the result is the very Option f returned,     *)
(* which may be none.                                                      *)
C6_AndThen ==
  last.op = "Option.andThen" =>
    IF Recv.flag
    THEN last.calls = <<>> /\ last.out.t = "return" /\ IsNoneAt(heap, last.out.v)
    ELSE RanOnly("flatMapper", last.fns[1], <<Recv.value>>)

C6_Witness ==
  /\ last.op = "Option.andThen"
  /\ ~Recv.flag
  /\ last.fns[1].f = "none"
  /\ IsNoneAt(heap, last.out.v)
  /\ Len(last.calls) = 1

(* C7: or(other) and orElse(thunk) on a some return the receiver itself    *)
(* and do not invoke thunk; on none, or returns other and orElse what one  *)
(* call of thunk, with no argument, returns.                               *)
C7_OrOrElse ==
  /\ last.op = "Option.or" =>
       /\ last.calls = <<>> /\ heap = Pre
       /\ last.out = [t |-> "return", v |-> IF Recv.flag THEN last.arg ELSE last.recv]
  /\ last.op = "Option.orElse" =>
       IF Recv.flag
       THEN RanOnly("otherThunk", last.fns[1], <<>>)
       ELSE last.calls = <<>> /\ heap = Pre /\ last.out = [t |-> "return", v |-> last.recv]

C7_Witness ==
  /\ last.op = "Option.or"
  /\ ~Recv.flag
  /\ last.arg # last.recv
  /\ last.out.v = last.recv

(* C8: for o none, some(ok(u)) or some(err(e)), the transpose of the       *)
(* transpose of o has the variants and the payload of o.                   *)
C8_OptionTransposeRoundTrip ==
  last.op = "Option.transpose" =>
    /\ last.out.t = "return"
    /\ LET back == Result_transpose(Start, last.out.v.n)
       IN back.out.t = "return" /\ Deep(back.heap, back.out.v) = Deep(heap, last.recv)

C8_Witness ==
  /\ last.op = "Option.transpose"
  /\ ~Recv.flag
  /\ heap[Recv.value.n].flag
  /\ IsErrOf(heap, last.out.v, heap[Recv.value.n].value)

(* C9: the transpose of a Result maps ok(none) to none, ok(some(u)) to     *)
(* some(ok(u)) and err(e) to some(err(e)), and the transpose of that       *)
(* Option has the variants and the payload of the Result.                  *)
C9_ResultTransposeRoundTrip ==
  last.op = "Result.transpose" =>
    /\ last.out.t = "return"
    /\ IF Recv.flag
       THEN /\ IsA(heap, last.out.v, "OptionImpl") /\ ~heap[last.out.v.n].flag
            /\ IsErrOf(heap, heap[last.out.v.n].value, Recv.value)
       ELSE IF heap[Recv.value.n].flag
            THEN IsNoneAt(heap, last.out.v)
            ELSE /\ IsA(heap, last.out.v, "OptionImpl") /\ ~heap[last.out.v.n].flag
                 /\ IsOkOf(heap, heap[last.out.v.n].value, heap[Recv.value.n].value)
    /\ LET back == Option_transpose(Start, last.out.v.n)
       IN back.out.t = "return" /\ Deep(back.heap, back.out.v) = Deep(heap, last.recv)

C9_Witness ==
  /\ last.op = "Result.transpose"
  /\ Recv.flag
  /\ IsErrOf(heap, heap[last.out.v.n].value, Recv.value)

(* C10: flatten removes one level of nesting and no more: on some(inner)   *)
(* the result is inner, so some(some(x)) gives some(x), some(none) gives   *)
(* none and some(some(some(x))) gives some(some(x)); on none it is none.   *)
C10_FlattenOneLevel ==
  last.op = "Option.flatten" =>
    /\ last.calls = <<>>
    /\ last.out.t = "return"
    /\ IF Recv.flag
       THEN IsNoneAt(heap, last.out.v)
       ELSE Deep(heap, last.out.v) = Deep(heap, Recv.value)

C10_Witness ==
  /\ last.op = "Option.flatten"
  /\ ~Recv.flag
  /\ ~heap[Recv.value.n].flag
  /\ IsA(heap, heap[Recv.value.n].value, "OptionImpl")
  /\ ~heap[heap[Recv.value.n].value.n].flag
  /\ last.out.v = Recv.value

(* C11: xor is a some exactly when one operand is a some and the other a  *)
(* none, and then it is that operand itself, payload included; two somes   *)
(* and two nones both give a none.  No callback runs.                      *)
C11_Xor ==
  last.op = "Option.xor" =>
    LET other == heap[last.arg.n]
    IN /\ last.calls = <<>>
       /\ last.out.t = "return"
       /\ IsA(heap, last.out.v, "OptionImpl")
       /\ ~heap[last.out.v.n].flag <=> (Recv.flag # other.flag)
       /\ (~Recv.flag /\ other.flag) =>
            last.out.v = last.recv /\ heap[last.out.v.n].value = Recv.value
       /\ (Recv.flag /\ ~other.flag) =>
            last.out.v = last.arg /\ heap[last.out.v.n].value = other.value
       /\ (Recv.flag = other.flag) => IsNoneAt(heap, last.out.v)

C11_Witness ==
  /\ last.op = "Option.xor"
  /\ ~Recv.flag
  /\ ~heap[last.arg.n].flag
  /\ last.recv # last.arg
  /\ IsNoneAt(heap, last.out.v)

(* C12: option.all gives a some exactly when every element is a some, and *)
(* its payload is then an array as long as the input whose i-th element is *)
(* the payload of the i-th Option, null and undefined payloads included; a *)
(* none at any position gives a none.                                      *)
C12_OptionAll ==
  last.op = "option.all" =>
    LET n == Len(last.arr)
        allSome == \A i \in 1..n : ~heap[last.arr[i].n].flag
    IN /\ last.calls = <<>>
       /\ last.out.t = "return"
       /\ IsA(heap, last.out.v, "OptionImpl")
       /\ ~heap[last.out.v.n].flag <=> allSome
       /\ allSome =>
            LET values == heap[last.out.v.n].value
            IN /\ IsA(heap, values, "Array")
               /\ Len(heap[values.n].elems) = n
               /\ \A i \in 1..n : heap[values.n].elems[i] = heap[last.arr[i].n].value

C12_Witness ==
  /\ last.op = "option.all"
  /\ Len(last.arr) >= 2
  /\ last.arr[1] # last.arr[2]
  /\ \E i \in 1..Len(last.arr) : heap[last.arr[i].n].value = Null
  /\ ~heap[last.out.v.n].flag
  /\ Len(heap[heap[last.out.v.n].value.n].elems) = Len(last.arr)

(* C13: result.all gives, when every element is an ok, an ok of the array  *)
(* of the payloads in input order; otherwise it returns the err of the     *)
(* smallest index, the very element of the input and unmodified, whatever  *)
(* follows it.                                                             *)
C13_ResultAll ==
  last.op = "result.all" =>
    LET n == Len(last.arr)
        errs == {i \in 1..n : heap[last.arr[i].n].flag}
    IN /\ last.calls = <<>>
       /\ last.out.t = "return"
       /\ IF errs = {}
          THEN /\ IsA(heap, last.out.v, "ResultImpl")
               /\ last.out.v.n > last.base
               /\ ~heap[last.out.v.n].flag
               /\ LET values == heap[last.out.v.n].value
                  IN /\ IsA(heap, values, "Array")
                     /\ Len(heap[values.n].elems) = n
                     /\ \A i \in 1..n :
                          heap[values.n].elems[i] = heap[last.arr[i].n].value
          ELSE LET first == CHOOSE i \in errs : \A j \in errs : i <= j
               IN /\ last.out.v = last.arr[first]
                  /\ heap[last.out.v.n] = Pre[last.out.v.n]
                  /\ IsErrOf(heap, last.out.v, Pre[last.arr[first].n].value)

C13_Witness ==
  /\ last.op = "result.all"
  /\ Len(last.arr) = 2
  /\ last.arr[1] # last.arr[2]
  /\ heap[last.arr[1].n].flag
  /\ heap[last.arr[2].n].flag
  /\ last.out.v = last.arr[1]

(* C14: reverse gives a new Result of the other variant with the same     *)
(* payload (ok(t) becomes err(t), err(e) becomes ok(e)), and the reverse   *)
(* of that has the variant and the payload of the receiver.                *)
C14_Reverse ==
  last.op = "Result.reverse" =>
    /\ last.calls = <<>>
    /\ last.out.t = "return"
    /\ IsA(heap, last.out.v, "ResultImpl")
    /\ heap[last.out.v.n].flag = ~Recv.flag
    /\ heap[last.out.v.n].value = Recv.value
    /\ LET back == Result_reverse(Start, last.out.v.n)
       IN /\ back.out.t = "return"
          /\ IsA(back.heap, back.out.v, "ResultImpl")
          /\ back.heap[back.out.v.n].flag = Recv.flag
          /\ back.heap[back.out.v.n].value = Recv.value
          /\ Deep(back.heap, back.out.v) = Deep(heap, last.recv)

C14_Witness ==
  /\ last.op = "Result.reverse"
  /\ Recv.flag
  /\ IsOkOf(heap, last.out.v, Recv.value)
  /\ IsErrOf(Result_reverse(Start, last.out.v.n).heap,
             Result_reverse(Start, last.out.v.n).out.v, Recv.value)

(* The call in progress threw a new UnwrapError carrying the message. *)
ThrewUnwrapError(message) ==
  /\ last.out.t = "throw"
  /\ IsA(heap, last.out.v, "UnwrapError")
  /\ last.out.v.n > last.base
  /\ heap[last.out.v.n].value = message

(* C15, as the specification words it: unwrap returns the payload of a     *)
(* some, and on a none throws an UnwrapError whose message is "Tried to    *)
(* call unwrap() on absent".                                               *)
C15_UnwrapMessageAbsent ==
  last.op = "Option.unwrap" =>
    IF Recv.flag
    THEN ThrewUnwrapError(Str("Tried to call unwrap() on absent"))
    ELSE last.out = [t |-> "return", v |-> Recv.value]

(* C15, amended: unwrap returns the payload of a some, and on a none       *)
(* throws a new UnwrapError whose message is "Tried to call unwrap() on    *)
(* option.none()".  No callback runs.                                      *)
C15_Unwrap ==
  last.op = "Option.unwrap" =>
    /\ last.calls = <<>>
    /\ IF Recv.flag
       THEN ThrewUnwrapError(Str("Tried to call unwrap() on option.none()"))
       ELSE last.out = [t |-> "return", v |-> Recv.value] /\ heap = Pre

C15_Witness ==
  /\ last.op = "Option.unwrap"
  /\ Recv.flag
  /\ last.out.t = "throw"
  /\ heap[last.out.v.n].cls = "UnwrapError"

(* What expect(message) does: on the variant it does not expect, it       *)
(* throws the Error object it was given, that very value and nothing       *)
(* allocated, or a new UnwrapError carrying the string it was given; on    *)
(* the variant it expects, it returns the payload.                         *)
ExpectDid(mismatch) ==
  /\ last.calls = <<>>
  /\ IF mismatch
     THEN IF last.arg = CustomError
          THEN last.out = [t |-> "throw", v |-> CustomError] /\ heap = Pre
          ELSE last.arg.k = "string" /\ ThrewUnwrapError(last.arg)
     ELSE last.out = [t |-> "return", v |-> Recv.value] /\ heap = Pre

(* C16: Option.expect on a none, Result.expect on an err and               *)
(* Result.expectErr on an ok throw the Error object given, itself, or a    *)
(* new error named UnwrapError whose message is the string given; on the   *)
(* other variant each returns the payload and throws nothing.              *)
C16_Expect ==
  /\ last.op = "Option.expect" => ExpectDid(Recv.flag)
  /\ last.op = "Result.expect" => ExpectDid(Recv.flag)
  /\ last.op = "Result.expectErr" => ExpectDid(~Recv.flag)

C16_Witness ==
  /\ last.op = "Result.expectErr"
  /\ ~Recv.flag
  /\ last.arg = CustomError
  /\ last.out = [t |-> "throw", v |-> CustomError]

(* C17: Result.unwrap returns the payload of an ok and on an err throws a *)
(* new UnwrapError with message "Tried to call unwrap() on result.err()";  *)
(* Result.unwrapErr returns the payload of an err and on an ok throws a    *)
(* new UnwrapError with message "Tried to call unwrapErr() on              *)
(* result.ok()".                                                           *)
C17_ResultUnwrap ==
  /\ last.op = "Result.unwrap" =>
       /\ last.calls = <<>>
       /\ IF Recv.flag
          THEN ThrewUnwrapError(Str("Tried to call unwrap() on result.err()"))
          ELSE last.out = [t |-> "return", v |-> Recv.value] /\ heap = Pre
  /\ last.op = "Result.unwrapErr" =>
       /\ last.calls = <<>>
       /\ IF Recv.flag
          THEN last.out = [t |-> "return", v |-> Recv.value] /\ heap = Pre
          ELSE ThrewUnwrapError(Str("Tried to call unwrapErr() on result.ok()"))

C17_Witness ==
  /\ last.op = "Result.unwrapErr"
  /\ ~Recv.flag
  /\ last.out.t = "throw"
  /\ heap[last.out.v.n] = UnwrapError(Str("Tried to call unwrapErr() on result.ok()"))

(* C18: option.fromVoidable gives a none exactly for undefined and null,   *)
(* and for every other value a some of that value: the falsy values 0, "" *)
(* and false give a some.                                                  *)
C18_FromVoidable ==
  last.op = "option.fromVoidable" =>
    /\ last.calls = <<>>
    /\ last.out.t = "return"
    /\ IsA(heap, last.out.v, "OptionImpl")
    /\ last.out.v.n > last.base
    /\ heap[last.out.v.n].flag <=> last.arg \in {Undefined, Null}
    /\ last.arg \notin {Undefined, Null} => IsSomeOf(heap, last.out.v, last.arg)
    /\ last.arg \in {Num(0), Str(""), Bool(FALSE)} => IsSomeOf(heap, last.out.v, last.arg)

C18_Witness ==
  /\ last.op = "option.fromVoidable"
  /\ last.arg = Str("")
  /\ IsSomeOf(heap, last.out.v, Str(""))

C20_ResultOrOrElse ==
  /\ last.op = "Result.or" =>
       /\ last.calls = <<>> /\ heap = Pre
       /\ last.out = [t |-> "return", v |-> IF Recv.flag THEN last.arg ELSE last.recv]
  /\ last.op = "Result.orElse" =>
       IF Recv.flag
       THEN /\ RanOnly("otherThunk", last.fns[1], <<Recv.value>>)
            /\ Len(last.calls) = 1
            /\ last.calls[1].args = <<Recv.value>>
       ELSE last.calls = <<>> /\ heap = Pre /\ last.out = [t |-> "return", v |-> last.recv]

C20_Witness ==
  /\ last.op = "Result.orElse"
  /\ Recv.flag
  /\ last.fns[1] = Fn("ok", Undefined)
  /\ last.calls = <<[role |-> "otherThunk", fn |-> last.fns[1], args |-> <<Recv.value>>]>>
  /\ IsOkOf(heap, last.out.v, Recv.value)

(* C21: filter on some(v) calls the predicate once, with v, and returns   *)
(* the receiver itself when the predicate holds and a none when it does    *)
(* not; on a none it returns a none and the predicate is not called.       *)
C21_Filter ==
  last.op = "Option.filter" =>
    IF Recv.flag
    THEN /\ last.calls = <<>>
         /\ last.out.t = "return"
         /\ IsNoneAt(heap, last.out.v)
    ELSE LET r == Invoke(PreState, "predicate", last.fns[1], <<Recv.value>>)
         IN /\ last.calls = r.calls
            /\ Len(last.calls) = 1
            /\ last.calls[1].args = <<Recv.value>>
            /\ r.out.t = "return" =>
                 /\ last.out.t = "return"
                 /\ IF Truthy(r.out.v)
                    THEN last.out.v = last.recv /\ heap = Pre
                    ELSE IsNoneAt(heap, last.out.v)

C21_Witness ==
  /\ last.op = "Option.filter"
  /\ ~Recv.flag
  /\ Recv.value = Num(1)
  /\ last.fns[1] = Fn("not", Undefined)
  /\ Len(last.calls) = 1
  /\ IsNoneAt(heap, last.out.v)

(* C22: unwrapOrThrowErr returns the payload of an ok and throws the       *)
(* payload of an err, that very value and nothing allocated;               *)
(* unwrapErrOrThrowOk returns the payload of an err and throws the payload *)
(* of an ok.                                                               *)
C22_UnwrapOrThrow ==
  /\ last.op = "Result.unwrapOrThrowErr" =>
       /\ last.calls = <<>> /\ heap = Pre
       /\ last.out = [t |-> IF Recv.flag THEN "throw" ELSE "return", v |-> Recv.value]
  /\ last.op = "Result.unwrapErrOrThrowOk" =>
       /\ last.calls = <<>> /\ heap = Pre
       /\ last.out = [t |-> IF Recv.flag THEN "return" ELSE "throw", v |-> Recv.value]

C22_Witness ==
  /\ last.op = "Result.unwrapOrThrowErr"
  /\ Recv.flag
  /\ IsRef(Recv.value)
  /\ last.out = [t |-> "throw", v |-> Recv.value]

(* C23: safeUnwrap on an ok returns the payload: it throws nothing, calls *)
(* nothing and allocates nothing.                                          *)
C23_SafeUnwrap ==
  (last.op = "Result.safeUnwrap" /\ ~Recv.flag) =>
    /\ last.calls = <<>>
    /\ heap = Pre
    /\ last.out = [t |-> "return", v |-> Recv.value]

C23_Witness ==
  /\ last.op = "Result.safeUnwrap"
  /\ ~Recv.flag
  /\ IsRef(Recv.value)
  /\ last.out = [t |-> "return", v |-> Recv.value]

(* C24: safeUnwrapErr on an err returns the error payload and throws      *)
(* nothing.                                                                *)
C24_SafeUnwrapErr ==
  (last.op = "Result.safeUnwrapErr" /\ Recv.flag) =>
    last.out = [t |-> "return", v |-> Recv.value]

(* C25: mapErr on err(e) calls the mapper once, with e, and returns a new *)
(* err of what the mapper returned; on an ok it returns the receiver,      *)
(* untouched, and the mapper is not called.                                *)
C25_MapErr ==
  last.op = "Result.mapErr" =>
    IF Recv.flag
    THEN LET r == Invoke(PreState, "mapper", last.fns[1], <<Recv.value>>)
         IN /\ last.calls = r.calls
            /\ Len(last.calls) = 1
            /\ last.calls[1].args = <<Recv.value>>
            /\ r.out.t = "return" =>
                 /\ last.out.t = "return"
                 /\ last.out.v.n > last.base
                 /\ IsErrOf(heap, last.out.v, r.out.v)
    ELSE /\ last.calls = <<>>
         /\ heap = Pre
         /\ last.out = [t |-> "return", v |-> last.recv]

C25_Witness ==
  /\ last.op = "Result.mapErr"
  /\ Recv.flag
  /\ Recv.value = Num(1)
  /\ last.fns[1] = Fn("not", Undefined)
  /\ IsErrOf(heap, last.out.v, Bool(FALSE))

(* C26: ok() is some(v) on ok(v) and none on an err; err() is none on an   *)
(* ok and some(e) on err(e); so of r.ok() and r.err() exactly one is a     *)
(* some, and r.ok().isSome() is r.isOk().                                  *)
C26_Projections ==
  /\ last.op = "Result.ok" =>
       /\ last.calls = <<>>
       /\ last.out.t = "return"
       /\ IF Recv.flag
          THEN IsNoneAt(heap, last.out.v)
          ELSE IsSomeOf(heap, last.out.v, Recv.value)
       /\ Option_isSome([heap |-> heap, calls |-> <<>>], last.out.v.n)
            = Result_isOk(PreState, last.recv.n)
       /\ LET e == Result_err(PreState, last.recv.n)
          IN heap[last.out.v.n].flag # e.heap[e.out.v.n].flag
  /\ last.op = "Result.err" =>
       /\ last.calls = <<>>
       /\ last.out.t = "return"
       /\ IF Recv.flag
          THEN IsSomeOf(heap, last.out.v, Recv.value)
          ELSE IsNoneAt(heap, last.out.v)
       /\ LET o == Result_ok(PreState, last.recv.n)
          IN heap[last.out.v.n].flag # o.heap[o.out.v.n].flag

C26_Witness ==
  /\ last.op = "Result.err"
  /\ Recv.flag
  /\ IsSomeOf(heap, last.out.v, Recv.value)
  /\ IsNoneAt(Result_ok(PreState, last.recv.n).heap, Result_ok(PreState, last.recv.n).out.v)

(* The operations that raise an UnwrapError, and the operations the       *)
(* specification lists as raising nothing of their own.                    *)
UnwrapOps ==
  {"Option.unwrap", "Option.expect", "Result.unwrap", "Result.expect",
   "Result.unwrapErr", "Result.expectErr"}

RaiseFreeOps ==
  {"Option.match", "Option.map", "Option.ifSome", "Option.ifNone",
   "Option.unwrapOr", "Option.unwrapOrElse", "Option.and", "Option.andThen",
   "Option.or", "Option.orElse", "Option.filter", "Option.flatten",
   "Option.array", "Option.xor", "Option.transpose", "Option.equalsSome",
   "Option.someSatisfies", "option.all", "option.fromVoidable",
   "Result.match", "Result.map", "Result.mapErr", "Result.ifOk", "Result.ifErr",
   "Result.unwrapOr", "Result.unwrapOrElse", "Result.and", "Result.andThen",
   "Result.or", "Result.orElse", "Result.array", "Result.transpose",
   "Result.okSatisfies", "Result.errSatisfies", "Result.reverse",
   "Result.ok", "Result.err", "result.all"}

(* The receiver is of the variant the operation of UnwrapOps does not expect. *)
Mismatch ==
  IF last.op \in {"Result.unwrapErr", "Result.expectErr"} THEN ~Recv.flag ELSE Recv.flag

(* C27: an UnwrapError is built only by unwrap, expect, unwrapErr and      *)
(* expectErr, only on the variant they do not expect, and it is what they  *)
(* throw; every other operation, when no callback it called threw,         *)
(* returns.                                                                *)
C27_UnwrapErrorOnly ==
  /\ \A a \in 1..Len(heap) :
       heap[a].cls = "UnwrapError" =>
         /\ a > last.base
         /\ last.op \in UnwrapOps
         /\ Mismatch
         /\ last.out = [t |-> "throw", v |-> Ref(a)]
  /\ (/\ last.op \in RaiseFreeOps
      /\ \A i \in 1..Len(last.calls) : last.calls[i].fn.f # "throw")
       => last.out.t = "return"

C27_Witness ==
  /\ last.op = "Option.expect"
  /\ Recv.flag
  /\ last.arg = Str("custom message")
  /\ last.out.t = "throw"
  /\ heap[last.out.v.n] = UnwrapError(Str("custom message"))

-----------------------------------------------------------------------------
(* Reference definitions of the operations that read the discriminant or   *)
(* the payload field directly: each reads the receiver through match       *)
(* only, by the callback match selects and the arguments it passes.        *)

ViaMatch_ifNone(st, this, executor) ==
  LET m == Option_match(st, this)
  IN IF m.cb = "none"
     THEN LET r == Invoke(st, "executor", executor, m.args)
          IN IF Threw(r) THEN r ELSE Ret(r, Undefined)
     ELSE Ret(st, Undefined)

ViaMatch_safeUnwrap(st, this) ==
  LET m == Result_match(st, this)
  IN Ret(st, m.args[1])

ViaMatch_unwrapOrElse(st, this, defaultValueThunk) ==
  LET m == Result_match(st, this)
  IN IF m.cb = "ok"
     THEN Ret(st, m.args[1])
     ELSE Invoke(st, "defaultValueThunk", defaultValueThunk, m.args)

RECURSIVE ViaMatch_optionAllLoop(_, _, _, _)
ViaMatch_optionAllLoop(st, options, i, values) ==
  IF i > Len(options)
  THEN OptionImpl_some(st, Ref(values))
  ELSE LET m == Option_match(st, options[i].n)
       IN IF m.cb = "some"
          THEN ViaMatch_optionAllLoop(
                 [st EXCEPT !.heap[values].elems = Append(@, m.args[1])],
                 options, i + 1, values)
          ELSE OptionImpl_none(st)

ViaMatch_optionAll(st, options) ==
  LET a == New(st, ArrayObj(<<>>))
  IN ViaMatch_optionAllLoop(a, options, 1, a.out.v.n)

RECURSIVE ViaMatch_resultAllLoop(_, _, _, _)
ViaMatch_resultAllLoop(st, results, i, values) ==
  IF i > Len(results)
  THEN ResultImpl_ok(st, Ref(values))
  ELSE LET m == Result_match(st, results[i].n)
       IN IF m.cb = "ok"
          THEN ViaMatch_resultAllLoop(
                 [st EXCEPT !.heap[values].elems = Append(@, m.args[1])],
                 results, i + 1, values)
          ELSE Ret(st, results[i])

ViaMatch_resultAll(st, results) ==
  LET a == New(st, ArrayObj(<<>>))
  IN ViaMatch_resultAllLoop(a, results, 1, a.out.v.n)

(* The call in progress ended as the evaluation r: same heap, same calls   *)
(* of the callbacks in the same order, same outcome.                       *)
EndedAs(r) == heap = r.heap /\ last.calls = r.calls /\ last.out = r.out

C29_CallbackThrowPropagates ==
  [][(/\ last.op = "idle"
      /\ \E i \in 1..Len(last'.calls) : last'.calls[i].fn.f = "throw") =>
       LET n == Len(last'.calls)
       IN /\ last'.calls[n].fn.f = "throw"
          /\ \A i \in 1..(n - 1) : last'.calls[i].fn.f # "throw"
          /\ last'.out = [t |-> "throw", v |-> last'.calls[n].fn.c]
          /\ IsRef(last'.recv) =>
               /\ last'.recv.n <= Len(heap)
               /\ heap'[last'.recv.n] = heap[last'.recv.n]]_vars

C29_Witness ==
  /\ last.op = "Result.match"
  /\ Recv.flag
  /\ last.fns[2] = Fn("throw", Boom)
  /\ Len(last.calls) = 1
  /\ last.out = [t |-> "throw", v |-> Boom]

====
